---- MODULE Spec2Model ----
(***************************************************************************)
(* State-machine model of src/src/pythonModel/rl_traffic_control.py:       *)
(* TrafficEnvironment (reset, step, _update_traffic_flow, _get_state),     *)
(* TrafficRLAgent (remember, act, replay, update_target_network, save,     *)
(* load) and train_agent.                                                  *)
(*                                                                         *)
(* Number representation.  Python floats are modelled by exact integers:   *)
(*   - current_time is kept in minutes (24 h = 1440, one tick = 5);        *)
(*   - random reals in [0, 1) are kept in thousandths;                     *)
(*   - epsilon is kept in units of 10^-9 (1.0 = 10^9);                     *)
(*   - action values (network outputs, targets) are kept in hundredths.    *)
(***************************************************************************)
EXTENDS Integers, Sequences, FiniteSets, TLC

VARIABLES
    num_requested,   \* TrafficEnvironment.num_intersections, as requested
    intersections,   \* TrafficEnvironment.intersections: id -> record
    current_time,    \* TrafficEnvironment.current_time, in minutes
    current_step,    \* TrafficEnvironment.current_step
    env_out,         \* what the last reset()/step() call was given and returned
    epsilon,         \* TrafficRLAgent.epsilon, in units of 10^-9
    memory,          \* TrafficRLAgent.memory: the deque, oldest entry first
    primary_network, \* TrafficRLAgent.primary_network: its weights
    target_network,  \* TrafficRLAgent.target_network: its weights
    agent_out,       \* what the last agent call was given and returned
    n_remember,      \* number of remember() calls so far
    n_trained,       \* number of replay() calls that reached the decay
    files,           \* the file system: path -> stored model or garbage
    pc,              \* train_agent: the statement control is at
    episodes,        \* train_agent: the argument episodes
    train_batch_size,\* train_agent: the argument batch_size
    episode,         \* train_agent: the loop variable of "for episode"
    agents,          \* train_agent: id -> the agent object of that id
    shaped_states,   \* train_agent: id -> observation the agent acts on
    joint_actions,   \* train_agent: the local actions, id -> action
    done,            \* train_agent: the local done
    turn,            \* train_agent: the id the loop over agents.items() is at
    total_rewards,   \* train_agent: id -> reward accumulated in the episode
    calls,           \* the calls made so far in the current tick, in order
    ticks,           \* passes through the body of "while not done" this episode
    syncs,           \* id -> update_target_network() calls this episode
    saves            \* id -> save() calls made for the agent

env_vars == <<num_requested, intersections, current_time, current_step,
              env_out>>

agent_vars == <<epsilon, memory, primary_network, target_network, agent_out,
                n_remember, n_trained>>

train_vars == <<pc, episodes, train_batch_size, episode, agents, shaped_states,
                joint_actions, done, turn, total_rewards, calls, ticks, syncs,
                saves>>

vars == <<num_requested, intersections, current_time, current_step, env_out,
          epsilon, memory, primary_network, target_network, agent_out,
          n_remember, n_trained, files,
          pc, episodes, train_batch_size, episode, agents, shaped_states,
          joint_actions, done, turn, total_rewards, calls, ticks, syncs, saves>>

----------------------------------------------------------------------------
(* Bounds of the model *)

\* TrafficEnvironment(num_intersections = ...) as constructed by the model.
num_intersections == 1

\* step() is explored while current_step is below this many ticks.
StepBound == 2

\* SpecJam explores step() while current_step is below this many ticks.
JamBound == 5

\* SpecLong explores step() while current_step is below this many ticks
\* (a simulated day is 288 ticks).
LongBound == 290

\* SpecHorizon explores step() while current_step is below this many ticks
\* (the horizon max_steps is 1000 ticks).
HorizonBound == 1002

\* deque(maxlen=...): the capacity of the replay buffer as the model builds
\* it (2000 in the source).
maxlen == 2

\* SpecAgent explores remember() for maxlen + ExtraRemember calls.
ExtraRemember == 1

\* SpecAgent explores replay() until this many calls have trained.
TrainBound == 2

\* SpecDecay explores replay() until this many calls have trained.
DecayBound == 925

\* SpecBuild constructs TrafficEnvironment(num_intersections = n) for
\* n = 0 .. MaxRequested.
MaxRequested == 10

\* SpecTrain runs train_agent(episodes = MaxEpisodes, ...).
MaxEpisodes == 11

\* SpecTrainFair runs train_agent(episodes, ...) for 0 .. FairEpisodes
\* episodes.
FairEpisodes == 2

----------------------------------------------------------------------------
(* Program constants *)

\* grid_size = (10, 10): rows and columns
grid_rows == 10

grid_cols == 10

\* the literal 30 of min(30, ...): the queue cap
QueueCap == 30

\* self.max_steps
max_steps == 1000

\* TrafficEnvironment(grid_size=(10, 10), num_intersections=4) of train_agent
train_num_intersections == 4

\* Action codes of step(): 0 keep, 1 switch, 2 NS green, 3 EW green.
ActionCodes == 0 .. 3

Min(a, b) == IF a <= b THEN a ELSE b

Max(a, b) == IF a >= b THEN a ELSE b

\* np.random.randint(lo, hi): an integer in [lo, hi); the model draws the
\* two ends of the range
RandInt(lo, hi) == {lo, hi - 1}

\* np.random.random() and np.random.rand(), in thousandths: a real in
\* [0, 1); the model draws the two ends of the range
RandomReal == {0, 999}

\* int(np.sqrt(n)): the integer square root
IntSqrt(n) == CHOOSE r \in 0 .. n : r * r <= n /\ (r + 1) * (r + 1) > n

\* np.linspace(0, last, k, dtype=int)[j], j = 0 .. k-1 (truncation to int)
Linspace(last, k, j) == IF k = 1 THEN 0 ELSE (j * last) \div (k - 1)

\* _initialize_intersections: ids 0 .. k*k-1 over the k row and k column
\* positions, every field zero.
GridSide == IntSqrt(num_intersections)

Ids == 0 .. (GridSide * GridSide - 1)

\* An id that is no key of self.intersections: the first one past the ids.
UnknownId == GridSide * GridSide

InitializeIntersections ==
    [i \in Ids |->
        [position |-> <<Linspace(grid_rows - 1, GridSide, i \div GridSide),
                        Linspace(grid_cols - 1, GridSide, i % GridSide)>>,
         queue_ns |-> 0,
         queue_ew |-> 0,
         current_phase |-> 0,
         time_in_phase |-> 0]]

\* _get_state: one observation per intersection.  The pair (sin, cos) of
\* 2*pi*current_time/24 is represented by the time it encodes.
GetState(ints, time) ==
    [i \in DOMAIN ints |->
        [queue_ns |-> ints[i].queue_ns,
         queue_ew |-> ints[i].queue_ew,
         current_phase |-> ints[i].current_phase,
         time_in_phase |-> ints[i].time_in_phase,
         time_of_day |-> time]]

NoMap == [i \in {} |-> 0]

\* TrafficEnvironment.__init__
EnvInit ==
    /\ num_requested = num_intersections
    /\ intersections = InitializeIntersections
    /\ current_time = 0
    /\ current_step = 0
    /\ env_out = [op |-> "init", actions |-> NoMap, state |-> NoMap,
                  rewards |-> NoMap, done |-> FALSE, info |-> NoMap]

\* Variant of Reset: the clock is left where it was.
ResetKeepsClock ==
    /\ current_time' = current_time
    /\ current_step' = 0
    /\ \E qns \in [DOMAIN intersections -> RandInt(0, 10)] :
       \E qew \in [DOMAIN intersections -> RandInt(0, 10)] :
          intersections' =
              [i \in DOMAIN intersections |->
                  [intersections[i] EXCEPT !.queue_ns = qns[i],
                                           !.queue_ew = qew[i],
                                           !.current_phase = 0,
                                           !.time_in_phase = 0]]
    /\ env_out' = [op |-> "reset", actions |-> NoMap,
                   state |-> GetState(intersections', current_time'),
                   rewards |-> NoMap, done |-> FALSE, info |-> NoMap]
    /\ UNCHANGED num_requested

\* reset()
Reset ==
    /\ current_time' = 0
    /\ current_step' = 0
    /\ \E qns \in [DOMAIN intersections -> RandInt(0, 10)] :
       \E qew \in [DOMAIN intersections -> RandInt(0, 10)] :
          intersections' =
              [i \in DOMAIN intersections |->
                  [intersections[i] EXCEPT !.queue_ns = qns[i],
                                           !.queue_ew = qew[i],
                                           !.current_phase = 0,
                                           !.time_in_phase = 0]]
    /\ env_out' = [op |-> "reset", actions |-> NoMap,
                   state |-> GetState(intersections', current_time'),
                   rewards |-> NoMap, done |-> FALSE, info |-> NoMap]
    /\ UNCHANGED num_requested

\* Variant of AdvanceTime: the modulo is missing.
AdvanceTimeNoWrap(t) == t + 5

\* self.current_time = (self.current_time + 5/60) % 24, in minutes
AdvanceTime(t) == (t + 5) % (24 * 60)

\* _update_traffic_flow: the time-of-day factor, in tenths
TrafficFactor(hour) ==
    IF (7 * 60 <= hour /\ hour < 9 * 60) \/ (16 * 60 <= hour /\ hour < 19 * 60)
    THEN 15
    ELSE IF 22 * 60 <= hour \/ hour < 5 * 60
         THEN 3
         ELSE 10

\* np.random.random() < 0.4 * traffic_factor * random_factor, with the draw u
\* and random_factor in thousandths and traffic_factor in tenths
Arrives(u, tf, rf) == u * 100 < 4 * tf * rf

\* What one pass of the loop body of _update_traffic_flow can add to
\* (queue_ns, queue_ew) of one intersection before the cap is applied.
ArrivalIncrements(hour) ==
    UNION { (IF Arrives(u1, TrafficFactor(hour), 500 + r)
                THEN RandInt(1, 4) ELSE {0})
            \X
            (IF Arrives(u2, TrafficFactor(hour), 500 + r)
                THEN RandInt(1, 4) ELSE {0})
            : <<r, u1, u2>> \in RandomReal \X RandomReal \X RandomReal }

\* _update_traffic_flow with the increments inc[i] drawn for intersection i
UpdateTrafficFlow(ints, inc) ==
    [i \in DOMAIN ints |->
        [ints[i] EXCEPT !.queue_ns = Min(QueueCap, ints[i].queue_ns + inc[i][1]),
                        !.queue_ew = Min(QueueCap, ints[i].queue_ew + inc[i][2])]]

\* Variant of ApplyAction: switching (action 1) leaves the timer running.
ApplyActionKeepsTimer(x, action) ==
    IF action = 1
    THEN [x EXCEPT !.current_phase = 1 - x.current_phase]
    ELSE IF action = 2 /\ x.current_phase # 0
         THEN [x EXCEPT !.current_phase = 0, !.time_in_phase = 0]
         ELSE IF action = 3 /\ x.current_phase # 1
              THEN [x EXCEPT !.current_phase = 1, !.time_in_phase = 0]
              ELSE x

\* step(): "Process action" for one intersection
ApplyAction(x, action) ==
    IF action = 1
    THEN [x EXCEPT !.current_phase = 1 - x.current_phase, !.time_in_phase = 0]
    ELSE IF action = 2 /\ x.current_phase # 0
         THEN [x EXCEPT !.current_phase = 0, !.time_in_phase = 0]
         ELSE IF action = 3 /\ x.current_phase # 1
              THEN [x EXCEPT !.current_phase = 1, !.time_in_phase = 0]
              ELSE x

\* Variant of ProcessFlow: the red side grows without the cap.
ProcessFlowUncapped(x, c, g) ==
    IF x.current_phase = 0
    THEN LET flow_rate == Min(3 + c, x.queue_ns)
         IN  [x EXCEPT !.queue_ns = Max(0, x.queue_ns - flow_rate),
                       !.queue_ew = x.queue_ew + g]
    ELSE LET flow_rate == Min(3 + c, x.queue_ew)
         IN  [x EXCEPT !.queue_ew = Max(0, x.queue_ew - flow_rate),
                       !.queue_ns = x.queue_ns + g]

\* step(): "Process traffic flow" for one intersection; c and g are the two
\* np.random.randint(0, 3) draws (service capacity 3 + c, red-side growth g)
ProcessFlow(x, c, g) ==
    IF x.current_phase = 0
    THEN LET flow_rate == Min(3 + c, x.queue_ns)
         IN  [x EXCEPT !.queue_ns = Max(0, x.queue_ns - flow_rate),
                       !.queue_ew = Min(QueueCap, x.queue_ew + g)]
    ELSE LET flow_rate == Min(3 + c, x.queue_ew)
         IN  [x EXCEPT !.queue_ew = Max(0, x.queue_ew - flow_rate),
                       !.queue_ns = Min(QueueCap, x.queue_ns + g)]

\* step(): "Increment time in current phase"
IncrementTimeInPhase(x) == [x EXCEPT !.time_in_phase = x.time_in_phase + 1]

\* step(): the reward of one intersection, computed after the increment
SwitchingPenalty(x) == IF x.time_in_phase = 0 THEN 3 ELSE 0

\* Variant of Reward: the negation is missing.
RewardUnsigned(x) == (x.queue_ns + x.queue_ew) + SwitchingPenalty(x)

Reward(x) == -((x.queue_ns + x.queue_ew) + SwitchingPenalty(x))

\* Variant of ProcessIntersection: the traffic flow is processed for the
\* phase before the action.
ProcessIntersectionFlowFirst(x, action, c, g) ==
    IncrementTimeInPhase(ApplyAction(ProcessFlow(x, c, g), action))

\* step(): the body of the loop over actions.items() for one known id
ProcessIntersection(x, action, c, g) ==
    IncrementTimeInPhase(ProcessFlow(ApplyAction(x, action), c, g))

\* Variant of Done: the flag is raised at the horizon only.
DoneOnlyAtHorizon(step) == step = max_steps

\* step(): "Check if episode is done", with the counter already incremented
Done(step) == step >= max_steps

\* Variant of Rewards: one entry per entry of the action map, 0 for an id
\* that is no intersection.
RewardsEveryEntry(actions, ints) ==
    [i \in DOMAIN actions |->
        IF i \in DOMAIN ints THEN Reward(ints[i]) ELSE 0]

\* step(): the rewards dict, filled in the loop over actions.items() after
\* the "continue" for ids that are no key of self.intersections; ints are
\* the intersections after the tick
Rewards(actions, ints) ==
    [i \in DOMAIN actions \cap DOMAIN ints |-> Reward(ints[i])]

\* The action maps given to step(): any codes for existing ids, and
\* possibly an entry for an id that does not exist.
ActionMaps ==
    { m \in UNION { [D -> ActionCodes] : D \in SUBSET (Ids \cup {UnknownId}) } :
        UnknownId \in DOMAIN m => m[UnknownId] = 1 }

\* Variant of Step: an intersection without an entry in the action map is
\* processed as with action 0, at service capacity 3 and without growth.
StepProcessesAll(actions, inc, draw) ==
    LET known == DOMAIN actions \cap DOMAIN intersections
        arrived == UpdateTrafficFlow(intersections, inc)
    IN  /\ current_step' = current_step + 1
        /\ current_time' = AdvanceTime(current_time)
        /\ intersections' =
              [i \in DOMAIN intersections |->
                  IF i \in known
                  THEN ProcessIntersection(arrived[i], actions[i],
                                           draw[i][1], draw[i][2])
                  ELSE ProcessIntersection(arrived[i], 0, 0, 0)]
        /\ env_out' =
              [op |-> "step",
               actions |-> actions,
               state |-> GetState(intersections', current_time'),
               rewards |-> [i \in DOMAIN intersections |->
                               Reward(intersections'[i])],
               done |-> Done(current_step'),
               info |-> [i \in DOMAIN intersections |->
                            [queue_ns |-> intersections'[i].queue_ns,
                             queue_ew |-> intersections'[i].queue_ew,
                             phase |-> intersections'[i].current_phase,
                             time_in_phase |-> intersections'[i].time_in_phase]]]
        /\ UNCHANGED num_requested

\* step(actions), with the random draws of the call made explicit:
\* inc[i] is what _update_traffic_flow adds to the two queues of i, and
\* draw[i] the two randint(0, 3) draws of the loop body for i.
Step(actions, inc, draw) ==
    LET known == DOMAIN actions \cap DOMAIN intersections
        arrived == UpdateTrafficFlow(intersections, inc)
    IN  /\ current_step' = current_step + 1
        /\ current_time' = AdvanceTime(current_time)
        /\ intersections' =
              [i \in DOMAIN intersections |->
                  IF i \in known
                  THEN ProcessIntersection(arrived[i], actions[i],
                                           draw[i][1], draw[i][2])
                  ELSE arrived[i]]
        /\ env_out' =
              [op |-> "step",
               actions |-> actions,
               state |-> GetState(intersections', current_time'),
               rewards |-> Rewards(actions, intersections'),
               done |-> Done(current_step'),
               info |-> [i \in known |->
                            [queue_ns |-> intersections'[i].queue_ns,
                             queue_ew |-> intersections'[i].queue_ew,
                             phase |-> intersections'[i].current_phase,
                             time_in_phase |-> intersections'[i].time_in_phase]]]
        /\ UNCHANGED num_requested

\* One step() call with the given maps, the increments restricted to Inc.
StepWith(maps, Inc, Draws) ==
    \E actions \in maps :
    \E inc \in [DOMAIN intersections ->
                    ArrivalIncrements(AdvanceTime(current_time)) \cap Inc] :
    \E draw \in [DOMAIN actions \cap DOMAIN intersections -> Draws] :
        Step(actions, inc, draw)

AllIncrements == (0 .. 3) \X (0 .. 3)

AllDraws == RandInt(0, 3) \X RandInt(0, 3)

----------------------------------------------------------------------------
(* TrafficRLAgent *)

\* action_size = 4 (train_agent); actions are 0 .. action_size - 1
action_size == 4

\* self.gamma = 0.95
gamma == [num |-> 95, den |-> 100]

\* self.epsilon = 1.0, in units of 10^-9
epsilon_start == 10 ^ 9

\* self.epsilon_min = 0.01, in units of 10^-9
epsilon_min == 10 ^ 7

\* self.epsilon_decay = 0.995
epsilon_decay == [num |-> 995, den |-> 1000]

\* The weights a network can have.  _build_model draws them at random and
\* fit() moves them; the model knows three networks by their outputs.
Weights == 0 .. 2

\* What distinguishes two observations for the networks of the model.
Feature(obs) == IF obs.queue_ns > obs.queue_ew THEN 1 ELSE 2

\* network.predict(state)[0] for a network with weights w: the action values,
\* in hundredths, indexed by action 0 .. 3
Predict(w, obs) ==
    LET v == CASE w = 0 -> IF Feature(obs) = 1 THEN <<100, 500, 300, 200>>
                                               ELSE <<200, 200, 0, 100>>
               [] w = 1 -> IF Feature(obs) = 1 THEN <<400, 400, 400, 400>>
                                               ELSE <<0, 300, 300, -100>>
               [] w = 2 -> IF Feature(obs) = 1 THEN <<-200, -600, -100, -100>>
                                               ELSE <<0, 0, 0, 100>>
    IN  [a \in 0 .. (action_size - 1) |-> v[a + 1]]

\* np.argmax(q): the first index holding the maximum
RECURSIVE ArgMaxFrom(_, _, _)
ArgMaxFrom(q, i, best) ==
    IF i >= action_size
    THEN best
    ELSE ArgMaxFrom(q, i + 1, IF q[i] > q[best] THEN i ELSE best)

ArgMax(q) == ArgMaxFrom(q, 1, 0)

\* TrafficRLAgent.__init__: both networks built (_build_model draws the
\* primary's weights, here from W0), then the target set to the primary's
\* weights
AgentInit(W0) ==
    /\ epsilon = epsilon_start
    /\ memory = << >>
    /\ primary_network \in W0
    /\ target_network = primary_network
    /\ agent_out = [op |-> "init"]
    /\ n_remember = 0
    /\ n_trained = 0

\* update_target_network()
UpdateTargetNetwork ==
    /\ target_network' = primary_network
    /\ agent_out' = [op |-> "update_target_network"]
    /\ UNCHANGED <<epsilon, memory, primary_network, n_remember, n_trained>>

\* Variant of DequeAppend: a plain list, nothing ever leaves.
DequeAppendUnbounded(q, e) == Append(q, e)

\* deque.append on a deque with maxlen: the oldest entry leaves when full
DequeAppend(q, e) ==
    IF Len(q) < maxlen THEN Append(q, e) ELSE Append(Tail(q), e)

\* remember(state, action, reward, next_state, done); the stored tuple
\* carries the number of the call that stored it (its identity)
Remember(t) ==
    /\ n_remember' = n_remember + 1
    /\ memory' = DequeAppend(memory,
                    [state |-> t.state, action |-> t.action, reward |-> t.reward,
                     next_state |-> t.next_state, done |-> t.done,
                     serial |-> n_remember'])
    /\ agent_out' = [op |-> "remember"]
    /\ UNCHANGED <<epsilon, primary_network, target_network, n_trained>>

\* act(state, training): u is the np.random.rand() draw (thousandths) and r
\* the random.randrange(action_size) draw, both used only when exploring
\* Variant of Explores: the training flag is not consulted.
ExploresAlways(training, u) == u * (10 ^ 6) <= epsilon

Explores(training, u) == training /\ u * (10 ^ 6) <= epsilon

ActResult(state, training, u, r) ==
    IF Explores(training, u)
    THEN r
    ELSE ArgMax(Predict(primary_network, state))

Act(state, training, u, r) ==
    /\ agent_out' = [op |-> "act", state |-> state, training |-> training,
                     result |-> ActResult(state, training, u, r)]
    /\ UNCHANGED <<epsilon, memory, primary_network, target_network,
                   n_remember, n_trained>>

\* Variant of ReplayTarget: the primary network both selects and evaluates
\* the next action.
ReplayTargetSingleNetwork(t, w) ==
    IF t.done
    THEN t.reward * 100
    ELSE LET next_action == ArgMax(Predict(w, t.next_state))
             target_q_values == Predict(w, t.next_state)
         IN  t.reward * 100 + (gamma.num * target_q_values[next_action]) \div gamma.den

\* replay(): target of one sampled tuple t, in hundredths, with the primary
\* network at weights w
ReplayTarget(t, w) ==
    IF t.done
    THEN t.reward * 100
    ELSE LET next_action == ArgMax(Predict(w, t.next_state))
             target_q_values == Predict(target_network, t.next_state)
         IN  t.reward * 100 + (gamma.num * target_q_values[next_action]) \div gamma.den

\* replay(): target_f of one sampled tuple
ReplayTargetF(t, w) ==
    [Predict(w, t.state) EXCEPT ![t.action] = ReplayTarget(t, w)]

\* replay(): the loop over the minibatch.  fitted[k] are the weights fit()
\* leaves after sample k; the result is the final weights and the list of
\* what was submitted to fit().
RECURSIVE ReplayLoop(_, _, _, _, _)
ReplayLoop(minibatch, fitted, k, w, fits) ==
    IF k > Len(minibatch)
    THEN [weights |-> w, fits |-> fits]
    ELSE ReplayLoop(minibatch, fitted, k + 1, fitted[k],
                    Append(fits, [sample |-> minibatch[k],
                                  weights |-> w,
                                  x |-> minibatch[k].state,
                                  y |-> ReplayTargetF(minibatch[k], w)]))

\* replay(): "Decay epsilon"
MulDecay(e) ==
    (e \div epsilon_decay.den) * epsilon_decay.num
        + ((e % epsilon_decay.den) * epsilon_decay.num) \div epsilon_decay.den

DecayEpsilon(e) == IF e > epsilon_min THEN MulDecay(e) ELSE e

\* Variant of DecayAfterBatch: one decay per sample of the minibatch.
RECURSIVE DecayPerSample(_, _)
DecayPerSample(e, batch_size) ==
    IF batch_size = 0 THEN e ELSE DecayPerSample(DecayEpsilon(e), batch_size - 1)

\* replay(): epsilon after a call that went through the minibatch of
\* batch_size samples; the decay stands after the loop, not inside it
DecayAfterBatch(e, batch_size) == DecayEpsilon(e)

\* random.sample(self.memory, batch_size): batch_size distinct positions,
\* in any order
Samples(n, batch_size) ==
    { p \in [1 .. batch_size -> 1 .. n] :
        \A i, j \in 1 .. batch_size : i # j => p[i] # p[j] }

\* Variant of ReplayTrain: the fitted weights go to both networks.
ReplayTrainBothNetworks(batch_size, pick, fitted) ==
    LET minibatch == [k \in 1 .. batch_size |-> memory[pick[k]]]
        run == ReplayLoop(minibatch, fitted, 1, primary_network, << >>)
    IN  /\ primary_network' = run.weights
        /\ target_network' = run.weights
        /\ epsilon' = DecayAfterBatch(epsilon, batch_size)
        /\ n_trained' = n_trained + 1
        /\ agent_out' = [op |-> "replay", batch_size |-> batch_size,
                         result |-> 0, fits |-> run.fits]
        /\ UNCHANGED <<memory, n_remember>>

\* replay(batch_size), with the sample and the outcomes of fit() explicit
ReplayTrain(batch_size, pick, fitted) ==
    LET minibatch == [k \in 1 .. batch_size |-> memory[pick[k]]]
        run == ReplayLoop(minibatch, fitted, 1, primary_network, << >>)
    IN  /\ primary_network' = run.weights
        /\ epsilon' = DecayAfterBatch(epsilon, batch_size)
        /\ n_trained' = n_trained + 1
        /\ agent_out' = [op |-> "replay", batch_size |-> batch_size,
                         result |-> 0, fits |-> run.fits]
        /\ UNCHANGED <<memory, target_network, n_remember>>

\* Variant of Replay: epsilon decays on the early return too.
ReplayDecayAlways(batch_size) ==
    IF Len(memory) < batch_size
    THEN /\ agent_out' = [op |-> "replay", batch_size |-> batch_size,
                          result |-> 0, fits |-> << >>]
         /\ epsilon' = DecayEpsilon(epsilon)
         /\ UNCHANGED <<memory, primary_network, target_network,
                        n_remember, n_trained>>
    ELSE \E pick \in Samples(Len(memory), batch_size) :
         \E fitted \in [1 .. batch_size -> Weights] :
             ReplayTrain(batch_size, pick, fitted)

Replay(batch_size) ==
    IF Len(memory) < batch_size
    THEN /\ agent_out' = [op |-> "replay", batch_size |-> batch_size,
                          result |-> 0, fits |-> << >>]
         /\ UNCHANGED <<epsilon, memory, primary_network, target_network,
                        n_remember, n_trained>>
    ELSE \E pick \in Samples(Len(memory), batch_size) :
         \E fitted \in [1 .. batch_size -> Weights] :
             ReplayTrain(batch_size, pick, fitted)

\* Observations and transitions handed to the agent
ObsA == [queue_ns |-> 4, queue_ew |-> 1, current_phase |-> 0,
         time_in_phase |-> 1, time_of_day |-> 5]

ObsB == [queue_ns |-> 2, queue_ew |-> 7, current_phase |-> 1,
         time_in_phase |-> 2, time_of_day |-> 10]

Observations == {ObsA, ObsB}

\* The batch_size values replay() is called with
BatchSizes == {1, 2}

Transitions ==
    { [state |-> ObsB, action |-> 1, reward |-> -6, next_state |-> ObsA, done |-> FALSE],
      [state |-> ObsA, action |-> 3, reward |-> -9, next_state |-> ObsB, done |-> TRUE] }

----------------------------------------------------------------------------
(* save() and load() *)

\* A file written by primary_network.save(): it holds the weights w.
ModelFile(w) == [valid |-> TRUE, weights |-> w]

\* A file that is no saved model.
Garbage == [valid |-> FALSE, weights |-> 0]

\* No file exists.
NoFiles == files = << >>

\* self.primary_network.save(filepath) on the file system fs: the file is
\* created or overwritten
WriteModel(fs, filepath, w) ==
    [p \in DOMAIN fs \cup {filepath} |->
        IF p = filepath THEN ModelFile(w) ELSE fs[p]]

\* tf.keras.models.load_model(filepath) on the file system fs: what one call
\* can do.  A missing file raises OSError, a malformed one OSError or
\* ValueError; a saved model is returned, unless reading it fails (OSError).
LoadModel(fs, filepath) ==
    IF filepath \notin DOMAIN fs
    THEN {[raised |-> "OSError", model |-> 0]}
    ELSE IF ~fs[filepath].valid
         THEN {[raised |-> "OSError", model |-> 0],
               [raised |-> "ValueError", model |-> 0]}
         ELSE {[raised |-> "none", model |-> fs[filepath].weights],
               [raised |-> "OSError", model |-> 0]}

\* Variant of PathOf: one path for every agent.
PathOfShared(i) == <<"agent_", 0, "_model.h5">>

\* f"agent_{i}_model.h5": the text before the id, the id, the text after it
PathOf(i) == <<"agent_", i, "_model.h5">>

\* Variant of CaughtByExcept: the handler is "except OSError".
CaughtOnlyOSError(e) == e = "OSError"

\* "except Exception": the classes the handler of load() catches; OSError
\* and ValueError derive from Exception
CaughtByExcept(e) == e \in {"Exception", "OSError", "ValueError"}

\* save(filepath)
Save(filepath) ==
    /\ files' = WriteModel(files, filepath, primary_network)
    /\ agent_out' = [op |-> "save", filepath |-> filepath]
    /\ UNCHANGED <<epsilon, memory, primary_network, target_network,
                   n_remember, n_trained>>

\* load(filepath); first and second are what the two load_model calls do.
\* agent_out.raised is the exception that leaves load(), "none" when load()
\* returns; agent_out.result is the value returned.
Load(filepath, first, second) ==
    /\ primary_network' =
          IF first.raised = "none" THEN first.model ELSE primary_network
    /\ target_network' =
          IF first.raised = "none" /\ second.raised = "none"
          THEN second.model
          ELSE target_network
    /\ agent_out' =
          LET failure == IF first.raised # "none" THEN first.raised
                                                  ELSE second.raised
          IN  [op |-> "load", filepath |-> filepath,
               first |-> first.raised,
               second |-> IF first.raised = "none" THEN second.raised
                                                   ELSE "not called",
               result |-> (failure = "none"),
               raised |-> IF failure = "none" \/ CaughtByExcept(failure)
                          THEN "none" ELSE failure]
    /\ UNCHANGED <<epsilon, memory, n_remember, n_trained, files>>

----------------------------------------------------------------------------
(* The operations of TrafficRLAgent on an agent object a, as train_agent   *)
(* uses them on each of its agents: a is the record of the object's        *)
(* fields, and an operation gives the record after the call.               *)

\* TrafficRLAgent(state_size, action_size), the primary built with weights w
NewAgent(w) ==
    [epsilon |-> epsilon_start, memory |-> << >>,
     primary_network |-> w, target_network |-> w,
     n_remember |-> 0, n_trained |-> 0]

\* a.act(state, training): the action returned; u and r as in Act
act(a, state, training, u, r) ==
    IF training /\ u * (10 ^ 6) <= a.epsilon
    THEN r
    ELSE ArgMax(Predict(a.primary_network, state))

\* a.remember(state, action, reward, next_state, done), t the tuple
remember(a, t) ==
    [a EXCEPT !.n_remember = @ + 1,
              !.memory = DequeAppend(@,
                  [state |-> t.state, action |-> t.action, reward |-> t.reward,
                   next_state |-> t.next_state, done |-> t.done,
                   serial |-> a.n_remember + 1])]

\* a.replay(batch_size); fitted[k] are the weights fit() leaves after the
\* k-th sample of the minibatch
replay(a, batch_size, fitted) ==
    IF Len(a.memory) < batch_size
    THEN a
    ELSE [a EXCEPT !.primary_network = fitted[batch_size],
                   !.epsilon = DecayAfterBatch(@, batch_size),
                   !.n_trained = @ + 1]

\* a.update_target_network()
update_target_network(a) == [a EXCEPT !.target_network = a.primary_network]

\* train_agent is not running.
NotTraining ==
    /\ pc = "idle"
    /\ episodes = 0
    /\ train_batch_size = 0
    /\ episode = 0
    /\ agents = << >>
    /\ shaped_states = << >>
    /\ joint_actions = << >>
    /\ done = FALSE
    /\ turn = 0
    /\ total_rewards = << >>
    /\ calls = << >>
    /\ ticks = 0
    /\ syncs = << >>
    /\ saves = << >>

----------------------------------------------------------------------------
(* Spec: a few ticks under every action map *)

EnvReset == Reset /\ UNCHANGED <<agent_vars, files, train_vars>>

EnvStep ==
    /\ current_step < StepBound
    /\ StepWith(ActionMaps, AllIncrements, AllDraws)
    /\ UNCHANGED <<agent_vars, files, train_vars>>

Init == EnvInit /\ AgentInit({0}) /\ NoFiles /\ NotTraining

Next == EnvReset \/ EnvStep

Spec == Init /\ [][Next]_vars

----------------------------------------------------------------------------
(* SpecJam: heavy traffic under every action map.  Arrivals come for both  *)
(* directions at once, three vehicles each, or not at all; the green side  *)
(* is served at capacity 3 and the red side grows by 2, long enough for a  *)
(* queue to reach the cap.                                                  *)

JamIncrements == {<<0, 0>>, <<3, 3>>}

JamDraws == {<<0, 2>>}

JamStep ==
    /\ current_step < JamBound
    /\ StepWith(ActionMaps, JamIncrements, JamDraws)
    /\ UNCHANGED <<agent_vars, files, train_vars>>

NextJam == EnvReset \/ JamStep

SpecJam == Init /\ [][NextJam]_vars

----------------------------------------------------------------------------
(* SpecLong: more than a simulated day of ticks, each either uncontrolled  *)
(* (empty action map) or switching every intersection; arrivals as in      *)
(* SpecJam, service at capacity 3, no growth of the red side.              *)

LongActionMaps == {NoMap, [i \in Ids |-> 1]}

LongDraws == {<<0, 0>>}

LongStep ==
    /\ current_step < LongBound
    /\ StepWith(LongActionMaps, JamIncrements, LongDraws)
    /\ UNCHANGED <<agent_vars, files, train_vars>>

NextLong == EnvReset \/ LongStep

SpecLong == Init /\ [][NextLong]_vars

----------------------------------------------------------------------------
(* SpecHorizon: an episode run to the horizon max_steps and past it.  The *)
(* intersections are left uncontrolled (empty action map) until two ticks  *)
(* before the horizon and are switched or left alone from then on;         *)
(* arrivals as in SpecJam, service as in SpecLong.                         *)

HorizonMaps(step) ==
    IF step < max_steps - 2 THEN {NoMap} ELSE LongActionMaps

HorizonStep ==
    /\ current_step < HorizonBound
    /\ StepWith(HorizonMaps(current_step), JamIncrements, LongDraws)
    /\ UNCHANGED <<agent_vars, files, train_vars>>

NextHorizon == EnvReset \/ HorizonStep

SpecHorizon == Init /\ [][NextHorizon]_vars

----------------------------------------------------------------------------
(* Claims about TrafficEnvironment *)

\* C1: in every reachable environment state every intersection has
\* 0 <= queue_ns <= 30 and 0 <= queue_ew <= 30.
C1_QueuesWithinCap ==
    \A i \in DOMAIN intersections :
        /\ 0 <= intersections[i].queue_ns /\ intersections[i].queue_ns <= 30
        /\ 0 <= intersections[i].queue_ew /\ intersections[i].queue_ew <= 30

\* A step() has just processed an intersection whose red (north-south)
\* queue stands at the cap.
C1_Witness ==
    /\ env_out.op = "step"
    /\ \E i \in DOMAIN env_out.rewards :
          /\ intersections[i].current_phase = 1
          /\ intersections[i].queue_ns = 30

\* C2: the reward step() returns for an intersection is
\* -(queue_ns + queue_ew + 3) when its phase changed in this tick and
\* -(queue_ns + queue_ew) otherwise, the queues taken after the tick.
C2_SwitchPenaltyWhenPhaseChanged ==
    [][current_step' = current_step + 1 =>
          \A i \in DOMAIN env_out'.rewards :
              env_out'.rewards[i] =
                  -(intersections'[i].queue_ns + intersections'[i].queue_ew
                    + (IF intersections'[i].current_phase
                            # intersections[i].current_phase
                       THEN 3 ELSE 0))]_vars

\* C3: every reward step() returns is <= 0.
C3_RewardNonPositive ==
    \A i \in DOMAIN env_out.rewards : env_out.rewards[i] <= 0

\* A step() has switched the phase of an intersection and returned the
\* largest possible reward, 0, for it.
C3_Witness ==
    /\ env_out.op = "step"
    /\ \E i \in DOMAIN env_out.rewards :
          env_out.actions[i] = 1 /\ env_out.rewards[i] = 0

\* C10: every step() call, the one with an empty action map included, adds 1
\* to current_step, advances current_time by 5 minutes modulo 24 hours
\* (keeping 0 <= current_time < 24 h; 23.95 h wraps to 0.033 h) and runs the
\* arrival process once for every intersection: a queue of an intersection
\* without an action grows by 0 to 3 vehicles, up to the cap.
C10_StepAdvancesClock ==
    [][env_out'.op = "step" =>
          /\ current_step' = current_step + 1
          /\ current_time' = (current_time + 5) % 1440
          /\ 0 <= current_time' /\ current_time' < 1440
          /\ AdvanceTime(1437) = 2
          /\ DOMAIN intersections' = DOMAIN intersections
          /\ \A i \in DOMAIN intersections \ DOMAIN env_out'.actions :
                /\ \E d \in 0 .. 3 :
                      intersections'[i].queue_ns
                          = Min(30, intersections[i].queue_ns + d)
                /\ \E d \in 0 .. 3 :
                      intersections'[i].queue_ew
                          = Min(30, intersections[i].queue_ew + d)]_vars

\* A step() with an empty action map has just wrapped current_time from
\* 23:55 to 0:00, with vehicles arrived during the tick.
C10_Witness ==
    /\ env_out.op = "step"
    /\ env_out.actions = NoMap
    /\ current_step = 288
    /\ current_time = 0
    /\ \E i \in DOMAIN intersections : intersections[i].queue_ns > 0

\* C11: the terminal flag step() returns is one boolean for the whole
\* environment; it is false after every step that leaves current_step below
\* 1000, true after the step that brings current_step to 1000 and true after
\* every later step, until reset() puts current_step back to 0.
C11_DoneFromHorizon ==
    env_out.op = "step" =>
        /\ env_out.done \in BOOLEAN
        /\ current_step < 1000 => env_out.done = FALSE
        /\ current_step >= 1000 => env_out.done = TRUE

\* A step() taken after the horizon (the 1001st of the episode) has
\* returned done = True.
C11_Witness ==
    /\ env_out.op = "step"
    /\ current_step = 1001
    /\ env_out.done = TRUE

\* C12: in every state reachable by reset() and step() calls,
\* current_step <= max_steps.
C12_StepCountBounded == current_step <= max_steps

\* C13: an entry of the action map for an id that is no intersection is
\* ignored by step(): the call returns, the set of intersections is as
\* before, rewards and info have no entry for that id, and the new state
\* and everything returned is what step() can produce for the same map
\* without that entry.
C13_UnknownIdIgnored ==
    [][(env_out'.op = "step" /\ UnknownId \in DOMAIN env_out'.actions) =>
          LET given == env_out'.actions
              rest == [i \in DOMAIN given \ {UnknownId} |-> given[i]]
          IN  /\ UnknownId \notin DOMAIN intersections
              /\ DOMAIN intersections' = DOMAIN intersections
              /\ UnknownId \notin DOMAIN env_out'.rewards
              /\ UnknownId \notin DOMAIN env_out'.info
              /\ \E inc \in [DOMAIN intersections -> AllIncrements] :
                 \E draw \in [DOMAIN rest -> AllDraws] :
                    LET arrived == UpdateTrafficFlow(intersections, inc)
                        after ==
                            [i \in DOMAIN intersections |->
                                IF i \in DOMAIN rest
                                THEN ProcessIntersection(arrived[i], rest[i],
                                                         draw[i][1], draw[i][2])
                                ELSE arrived[i]]
                    IN  /\ intersections' = after
                        /\ env_out'.state = GetState(after, current_time')
                        /\ env_out'.rewards
                              = [i \in DOMAIN rest |-> Reward(after[i])]
                        /\ DOMAIN env_out'.info = DOMAIN rest
                        /\ \A i \in DOMAIN rest :
                              env_out'.info[i] =
                                  [queue_ns |-> after[i].queue_ns,
                                   queue_ew |-> after[i].queue_ew,
                                   phase |-> after[i].current_phase,
                                   time_in_phase |-> after[i].time_in_phase]]_vars

\* step() has returned from a call whose action map had an entry for an id
\* that is no intersection next to an entry that switched an intersection.
C13_Witness ==
    /\ env_out.op = "step"
    /\ UnknownId \in DOMAIN env_out.actions
    /\ \E i \in DOMAIN env_out.rewards :
          /\ env_out.actions[i] = 1
          /\ intersections[i].current_phase = 1

\* C14: for an intersection with an action in step(): action 0 leaves
\* current_phase as it was, action 1 toggles it, action 2 leaves it at 0 and
\* action 3 at 1; after the step time_in_phase is 1 if the phase changed in
\* this tick and the previous value plus 1 otherwise; time_in_phase is
\* never negative.
C14_ActionApplication ==
    [][env_out'.op = "step" =>
          /\ \A i \in DOMAIN intersections' :
                intersections'[i].time_in_phase >= 0
          /\ \A i \in DOMAIN env_out'.actions \cap DOMAIN intersections :
                LET action == env_out'.actions[i]
                    before == intersections[i]
                    after == intersections'[i]
                IN  /\ action = 0 => after.current_phase = before.current_phase
                    /\ action = 1 => after.current_phase = 1 - before.current_phase
                    /\ action = 2 => after.current_phase = 0
                    /\ action = 3 => after.current_phase = 1
                    /\ after.time_in_phase =
                          IF after.current_phase # before.current_phase
                          THEN 1
                          ELSE before.time_in_phase + 1]_vars

\* The second step() of an episode has toggled an intersection back to
\* phase 0 (action 1), leaving time_in_phase at 1.
C14_Witness ==
    /\ env_out.op = "step"
    /\ current_step = 2
    /\ \E i \in DOMAIN env_out.rewards :
          /\ env_out.actions[i] = 1
          /\ intersections[i].current_phase = 0
          /\ intersections[i].time_in_phase = 1

\* C17: reset(), in whatever state it is called, sets current_time and
\* current_step to 0 and, for every intersection, current_phase to 0,
\* time_in_phase to 0 and both queues to an integer of 0 .. 9; the ids and
\* the positions stay as they were, and the returned state has one
\* observation per intersection, equal to that intersection's new state.
C17_ResetReinitialises ==
    [][env_out'.op = "reset" =>
          /\ current_time' = 0
          /\ current_step' = 0
          /\ DOMAIN intersections' = DOMAIN intersections
          /\ \A i \in DOMAIN intersections :
                /\ intersections'[i].position = intersections[i].position
                /\ intersections'[i].current_phase = 0
                /\ intersections'[i].time_in_phase = 0
                /\ intersections'[i].queue_ns \in 0 .. 9
                /\ intersections'[i].queue_ew \in 0 .. 9
          /\ DOMAIN env_out'.state = DOMAIN intersections
          /\ \A i \in DOMAIN intersections :
                env_out'.state[i] =
                    [queue_ns |-> intersections'[i].queue_ns,
                     queue_ew |-> intersections'[i].queue_ew,
                     current_phase |-> 0,
                     time_in_phase |-> 0,
                     time_of_day |-> 0]]_vars

\* reset() has returned with a north-south queue of 9 and an empty
\* east-west queue.
C17_Witness ==
    /\ env_out.op = "reset"
    /\ \E i \in DOMAIN env_out.state :
          /\ env_out.state[i].queue_ns = 9
          /\ env_out.state[i].queue_ew = 0
          /\ intersections[i].queue_ns = 9

\* C22: for an intersection with an action, step() takes min(q, c)
\* vehicles, c in {3, 4, 5}, from the queue q of the direction that is
\* green after the action, and adds 0, 1 or 2 vehicles, up to the cap 30,
\* to the queue of the red direction; q and the red queue are the queues
\* after the arrivals of the tick (0 to 3 vehicles each, up to the cap).
\* So the green queue does not grow in this stage and is emptied when it
\* held at most 3, and the red queue does not shrink.
C22_DischargeAndGrowth ==
    [][env_out'.op = "step" =>
          \A i \in DOMAIN env_out'.actions \cap DOMAIN intersections :
              LET before == intersections[i]
                  after == intersections'[i]
                  ns_green == after.current_phase = 0
                  green_before == IF ns_green THEN before.queue_ns
                                              ELSE before.queue_ew
                  green_after == IF ns_green THEN after.queue_ns
                                             ELSE after.queue_ew
                  red_before == IF ns_green THEN before.queue_ew
                                            ELSE before.queue_ns
                  red_after == IF ns_green THEN after.queue_ew
                                           ELSE after.queue_ns
              IN  /\ \E q \in green_before .. Min(30, green_before + 3) :
                        /\ \E c \in 3 .. 5 : green_after = q - Min(q, c)
                        /\ green_after <= q
                        /\ q <= 3 => green_after = 0
                  /\ \E q \in red_before .. Min(30, red_before + 3) :
                        /\ \E g \in 0 .. 2 : red_after = Min(30, q + g)
                        /\ red_after >= q]_vars

\* The first step() after a reset() to queues of 9 has switched an
\* intersection to east-west green (action 3), served 5 of the east-west
\* queue and added 2 to the north-south queue.
C22_Witness ==
    /\ env_out.op = "step"
    /\ current_step = 1
    /\ \E i \in DOMAIN env_out.rewards :
          /\ env_out.actions[i] = 3
          /\ intersections[i].current_phase = 1
          /\ intersections[i].queue_ew = 4
          /\ intersections[i].queue_ns = 11

\* C23: for an intersection that has no entry in the action map, step()
\* leaves current_phase and time_in_phase as they were and changes the
\* queues by the arrivals only (0 to 3 vehicles each, up to the cap, so
\* neither queue decreases); rewards and info have exactly the keys of the
\* action map that are intersections.
C23_NoEntryOnlyArrivals ==
    [][env_out'.op = "step" =>
          /\ DOMAIN env_out'.rewards
                = DOMAIN env_out'.actions \cap DOMAIN intersections
          /\ DOMAIN env_out'.info
                = DOMAIN env_out'.actions \cap DOMAIN intersections
          /\ \A i \in DOMAIN intersections \ DOMAIN env_out'.actions :
                /\ intersections'[i].current_phase
                      = intersections[i].current_phase
                /\ intersections'[i].time_in_phase
                      = intersections[i].time_in_phase
                /\ intersections'[i].position = intersections[i].position
                /\ intersections'[i].queue_ns >= intersections[i].queue_ns
                /\ intersections'[i].queue_ew >= intersections[i].queue_ew
                /\ \E d \in 0 .. 3 :
                      intersections'[i].queue_ns
                          = Min(30, intersections[i].queue_ns + d)
                /\ \E d \in 0 .. 3 :
                      intersections'[i].queue_ew
                          = Min(30, intersections[i].queue_ew + d)]_vars

\* The second step() of an episode was given an action for an unknown id
\* only: the intersection switched in the first tick is still in phase 1
\* with time_in_phase 1, its queues are not empty and no reward is returned.
C23_Witness ==
    /\ env_out.op = "step"
    /\ current_step = 2
    /\ DOMAIN env_out.actions = {UnknownId}
    /\ env_out.rewards = NoMap
    /\ env_out.info = NoMap
    /\ \E i \in DOMAIN intersections :
          /\ intersections[i].current_phase = 1
          /\ intersections[i].time_in_phase = 1
          /\ intersections[i].queue_ns > 0

----------------------------------------------------------------------------
(* Claims about TrafficRLAgent *)

\* The first index holding the maximum of q, stated without the scan.
FirstMaxIndex(q) ==
    CHOOSE a \in DOMAIN q :
        /\ \A b \in DOMAIN q : q[b] <= q[a]
        /\ \A b \in DOMAIN q : b < a => q[b] < q[a]

\* C4: after any number of replay() calls, starting from epsilon = 1.0 with
\* epsilon_decay = 0.995 and epsilon_min = 0.01, epsilon never drops below
\* epsilon_min (0.01 is 10^7 in units of 10^-9).
C4_EpsilonNeverBelowMin == epsilon >= 10000000

\* C5: epsilon never increases under any agent operation, and it changes
\* only in a replay() call that trains, which multiplies it by epsilon_decay
\* exactly once whatever the batch size (e * 0.995 = e - e/200, rounded down).
C5_EpsilonNonIncreasing ==
    [][/\ epsilon' <= epsilon
       /\ epsilon' # epsilon =>
             /\ agent_out'.op = "replay"
             /\ Len(memory) >= agent_out'.batch_size
             /\ epsilon' = epsilon - ((epsilon + 199) \div 200)]_vars

\* A replay(2) call has trained on two samples and epsilon stands at
\* 0.995, one decay below its start.
C5_Witness ==
    /\ agent_out.op = "replay"
    /\ agent_out.batch_size = 2
    /\ Len(agent_out.fits) = 2
    /\ epsilon = 995000000

\* C6: the replay buffer never holds more than its capacity, and it holds
\* exactly the most recently remembered transitions, oldest first: after n
\* remember() calls, the last min(capacity, n) of them in insertion order.
C6_BufferKeepsMostRecent ==
    /\ Len(memory) <= maxlen
    /\ Len(memory) = Min(maxlen, n_remember)
    /\ \A j \in 1 .. Len(memory) :
          memory[j].serial = n_remember - Len(memory) + j

\* remember() has been called more often than the buffer's capacity and
\* the buffer is full.
C6_Witness == n_remember > maxlen /\ Len(memory) = maxlen

\* C7: replay(batch_size) called while the buffer holds fewer than
\* batch_size transitions returns 0 and changes neither the buffer, nor the
\* primary network, nor the target network, nor epsilon, and submits nothing
\* to fit().
C7_ReplayNoOpWhenShort ==
    [][(agent_out'.op = "replay" /\ Len(memory) < agent_out'.batch_size) =>
          /\ memory' = memory
          /\ primary_network' = primary_network
          /\ target_network' = target_network
          /\ epsilon' = epsilon
          /\ agent_out'.result = 0
          /\ agent_out'.fits = << >>]_vars

\* replay(2) has just returned on a buffer holding one transition.
C7_Witness ==
    /\ agent_out.op = "replay"
    /\ agent_out.batch_size = 2
    /\ Len(memory) = 1
    /\ agent_out.fits = << >>

\* C8: for each sampled transition (s, a, r, s', done) replay() submits to
\* fit() the primary's estimate on s with only index a overwritten by the
\* target: r when done, else r + gamma * target(s')[argmax primary(s')].
\* With primary(s') = [1,5,3,2], target(s') = [4,4,4,4], r = -6 the next
\* action is 1 and the target -2.2 (values in hundredths).
C8_DoubleDqnTarget ==
    agent_out.op = "replay" =>
        \A k \in 1 .. Len(agent_out.fits) :
            LET f == agent_out.fits[k]
                t == f.sample
                q_primary == Predict(f.weights, t.next_state)
                q_target == Predict(target_network, t.next_state)
                next_action == FirstMaxIndex(q_primary)
                target == IF t.done
                          THEN 100 * t.reward
                          ELSE 100 * t.reward + (95 * q_target[next_action]) \div 100
            IN  /\ f.x = t.state
                /\ DOMAIN f.y = 0 .. 3
                /\ f.y[t.action] = target
                /\ \A a \in 0 .. 3 :
                      a # t.action => f.y[a] = Predict(f.weights, t.state)[a]
                /\ ( /\ ~t.done
                     /\ t.reward = -6
                     /\ q_primary = [a \in 0 .. 3 |-> <<100, 500, 300, 200>>[a + 1]]
                     /\ q_target = [a \in 0 .. 3 |-> 400] )
                   => (next_action = 1 /\ f.y[t.action] = -220)

\* replay() has processed a non-terminal transition with r = -6 while the
\* primary estimated [1,5,3,2] and the target [4,4,4,4] on its next state,
\* and submitted the target -2.2 for its action.
C8_Witness ==
    /\ agent_out.op = "replay"
    /\ \E k \in 1 .. Len(agent_out.fits) :
          LET f == agent_out.fits[k]
          IN  /\ ~f.sample.done
              /\ f.sample.reward = -6
              /\ Predict(f.weights, f.sample.next_state)
                    = [a \in 0 .. 3 |-> <<100, 500, 300, 200>>[a + 1]]
              /\ Predict(target_network, f.sample.next_state)
                    = [a \in 0 .. 3 |-> 400]
              /\ f.y[f.sample.action] = -220

\* C9: act(state, training=False) returns the first index holding the
\* maximum of the primary network's estimates for state, whatever epsilon
\* and the random draws are, and no act() call changes the agent's state
\* (buffer, networks, epsilon).
C9_ActGreedyWhenNotTraining ==
    [][agent_out'.op = "act" =>
          /\ UNCHANGED <<epsilon, memory, primary_network, target_network>>
          /\ ~agent_out'.training =>
                agent_out'.result
                    = FirstMaxIndex(Predict(primary_network, agent_out'.state))]_vars

\* act(training=False) has returned action 0 at epsilon = 1.0 for a state
\* on which the primary's estimates tie between actions 0 and 1.
C9_Witness ==
    /\ agent_out.op = "act"
    /\ ~agent_out.training
    /\ epsilon = 1000000000
    /\ Predict(primary_network, agent_out.state)[0]
          = Predict(primary_network, agent_out.state)[1]
    /\ agent_out.result = 0
    /\ FirstMaxIndex(Predict(primary_network, agent_out.state)) = 0

\* C16: act(), remember() and replay() leave the target network as it is,
\* so between two update_target_network() calls the target keeps the
\* weights the earlier call gave it; of the two networks replay() changes
\* the primary only; update_target_network() leaves the primary as it is and
\* makes the target equal to it.
C16_TargetFrozenBetweenSyncs ==
    [][/\ agent_out'.op \in {"act", "remember", "replay"} =>
              target_network' = target_network
       /\ agent_out'.op \in {"act", "remember"} =>
              primary_network' = primary_network
       /\ agent_out'.op = "update_target_network" =>
              /\ primary_network' = primary_network
              /\ target_network' = primary_network]_vars

\* replay() has trained the primary network away from the target, which
\* still has the weights of construction.
C16_Witness ==
    /\ agent_out.op = "replay"
    /\ Len(agent_out.fits) > 0
    /\ primary_network # target_network

----------------------------------------------------------------------------
(* SpecAgent: one agent driven through its operations in any order *)

AgentRemember ==
    /\ n_remember < maxlen + ExtraRemember
    /\ \E t \in Transitions : Remember(t)
    /\ UNCHANGED <<env_vars, files, train_vars>>

AgentAct ==
    /\ \E state \in Observations, training \in BOOLEAN :
       \E u \in RandomReal, r \in RandInt(0, action_size) :
           Act(state, training, u, r)
    /\ UNCHANGED <<env_vars, files, train_vars>>

AgentReplay ==
    /\ n_trained < TrainBound
    /\ \E batch_size \in BatchSizes : Replay(batch_size)
    /\ UNCHANGED <<env_vars, files, train_vars>>

AgentUpdateTarget == UpdateTargetNetwork /\ UNCHANGED <<env_vars, files, train_vars>>

NextAgent == AgentRemember \/ AgentAct \/ AgentReplay \/ AgentUpdateTarget

InitAgent == EnvInit /\ AgentInit(Weights) /\ NoFiles /\ NotTraining

SpecAgent == InitAgent /\ [][NextAgent]_vars

----------------------------------------------------------------------------
(* SpecDecay: one stored transition replayed with batch_size = 1 until     *)
(* epsilon stops decaying                                                   *)

DecayRemember ==
    /\ n_remember < 1
    /\ \E t \in Transitions : Remember(t)
    /\ UNCHANGED <<env_vars, files, train_vars>>

DecayReplay ==
    /\ n_trained < DecayBound
    /\ Replay(1)
    /\ UNCHANGED <<env_vars, files, train_vars>>

NextDecay == DecayRemember \/ DecayReplay

SpecDecay == Init /\ [][NextDecay]_vars

----------------------------------------------------------------------------
(* SpecPersist: one agent saving to and loading from two paths, each of    *)
(* which starts missing, malformed or holding a saved model                *)

PersistPaths == {PathOf(0), PathOf(1)}

FileSystems ==
    UNION { [D -> {Garbage} \cup {ModelFile(w) : w \in Weights}] :
                D \in SUBSET PersistPaths }

PersistSave ==
    /\ \E filepath \in PersistPaths : Save(filepath)
    /\ UNCHANGED <<env_vars, train_vars>>

PersistLoad ==
    /\ \E filepath \in PersistPaths :
       \E first \in LoadModel(files, filepath) :
       \E second \in LoadModel(files, filepath) :
           Load(filepath, first, second)
    /\ UNCHANGED <<env_vars, train_vars>>

NextPersist == PersistSave \/ PersistLoad

InitPersist ==
    EnvInit /\ AgentInit(Weights) /\ files \in FileSystems /\ NotTraining

SpecPersist == InitPersist /\ [][NextPersist]_vars

\* C18: no exception leaves load(); load() returns False when a
\* load_model call failed (missing or malformed file) and True only when
\* both load_model calls returned a model.
C18_LoadNeverRaises ==
    agent_out.op = "load" =>
        /\ agent_out.raised = "none"
        /\ agent_out.first # "none" => agent_out.result = FALSE
        /\ agent_out.second # "none" => agent_out.result = FALSE
        /\ agent_out.result = TRUE =>
              agent_out.first = "none" /\ agent_out.second = "none"

\* load() has returned False for a malformed file, on which load_model
\* raised ValueError.
C18_Witness ==
    /\ agent_out.op = "load"
    /\ agent_out.filepath \in DOMAIN files
    /\ ~files[agent_out.filepath].valid
    /\ agent_out.first = "ValueError"
    /\ agent_out.result = FALSE
    /\ agent_out.raised = "none"

\* C24: load(path) either returns True with both networks replaced by the
\* model stored at path (so the target equals the primary), or returns
\* False with both networks as they were before the call.
C24_LoadAllOrNothing ==
    [][agent_out'.op = "load" =>
          \/ /\ agent_out'.result = TRUE
             /\ agent_out'.filepath \in DOMAIN files
             /\ primary_network' = files[agent_out'.filepath].weights
             /\ target_network' = primary_network'
          \/ /\ agent_out'.result = FALSE
             /\ primary_network' = primary_network
             /\ target_network' = target_network]_vars

----------------------------------------------------------------------------
(* train_agent(episodes, batch_size) *)

\* Variant of IntersectionsFor: one intersection per requested one, placed
\* row by row on the floor(sqrt(n)) columns.
IntersectionsForRequested(n) ==
    LET side == IntSqrt(n)
    IN  [i \in 0 .. (n - 1) |->
            [position |-> <<Linspace(grid_rows - 1, side, i \div side),
                            Linspace(grid_cols - 1, side, i % side)>>,
             queue_ns |-> 0,
             queue_ew |-> 0,
             current_phase |-> 0,
             time_in_phase |-> 0]]

\* _initialize_intersections for num_intersections = n
IntersectionsFor(n) ==
    LET side == IntSqrt(n)
    IN  [i \in 0 .. (side * side - 1) |->
            [position |-> <<Linspace(grid_rows - 1, side, i \div side),
                            Linspace(grid_cols - 1, side, i % side)>>,
             queue_ns |-> 0,
             queue_ew |-> 0,
             current_phase |-> 0,
             time_in_phase |-> 0]]

\* The keys of the dict agents: range(len(env.intersections))
AgentIds == 0 .. (Cardinality(DOMAIN IntersectionsFor(train_num_intersections)) - 1)

\* The ids in the order "for i, agent in agents.items()" visits them
LastAgent == Cardinality(AgentIds) - 1

\* train_agent up to the head of "for episode in range(episodes)": the
\* environment and one agent per intersection are built.  E, B are the
\* values the arguments are drawn from and W0 the assignments of weights
\* _build_model can give the primary networks.
TrainInit(E, B, W0) ==
    /\ num_requested = train_num_intersections
    /\ intersections = IntersectionsFor(train_num_intersections)
    /\ current_time = 0
    /\ current_step = 0
    /\ env_out = [op |-> "init", actions |-> NoMap, state |-> NoMap,
                  rewards |-> NoMap, done |-> FALSE, info |-> NoMap]
    /\ AgentInit({0})
    /\ NoFiles
    /\ pc = "for_episode"
    /\ episodes \in E
    /\ train_batch_size \in B
    /\ episode = 0
    /\ \E w \in W0 : agents = [i \in AgentIds |-> NewAgent(w[i])]
    /\ shaped_states = << >>
    /\ joint_actions = << >>
    /\ done = FALSE
    /\ turn = 0
    /\ total_rewards = << >>
    /\ calls = << >>
    /\ ticks = 0
    /\ syncs = [i \in AgentIds |-> 0]
    /\ saves = [i \in AgentIds |-> 0]

\* The draws of a training run: reset() fills every queue with the same
\* value, no vehicle arrives, the green side is served at capacity 3 and the
\* red side grows by 2; np.random.rand() gives 0.999 and randrange the same
\* value for every agent of a tick; fit() moves the weights to the next of
\* the three networks.
TrainIncrements == {<<0, 0>>}

TrainDraws == {<<0, 2>>}

TrainRand == {999}

TrainFitted(w, n) == {[k \in 1 .. n |-> (w + k) % Cardinality(Weights)]}

\* "for episode in range(episodes)" entering its body: env.reset(), the
\* shaped states, total_rewards and done = False
TrainBeginEpisode ==
    /\ pc = "for_episode"
    /\ episode < episodes
    /\ Reset
    /\ \A i, j \in DOMAIN intersections :
          intersections'[i].queue_ns = intersections'[j].queue_ew
    /\ shaped_states' = env_out'.state
    /\ total_rewards' = [i \in DOMAIN agents |-> 0]
    /\ done' = FALSE
    /\ pc' = "while"
    /\ calls' = << >>
    /\ ticks' = 0
    /\ syncs' = [i \in DOMAIN agents |-> 0]
    /\ UNCHANGED <<agent_vars, files, episodes, train_batch_size, episode,
                   agents, joint_actions, turn, saves>>

\* "while not done" entering its body: "Agents select actions"
TrainSelectActions ==
    /\ pc = "while"
    /\ ~done
    /\ \E u \in TrainRand, r \in RandInt(0, action_size) :
          joint_actions' =
              [i \in DOMAIN agents |->
                  act(agents[i], shaped_states[i], TRUE, u, r)]
    /\ calls' =
          [k \in 1 .. Cardinality(DOMAIN agents) |->
              [op |-> "act", agent |-> k - 1,
               state |-> shaped_states[k - 1],
               observed |-> GetState(intersections, current_time)[k - 1],
               result |-> joint_actions'[k - 1]]]
    /\ pc' = "step"
    /\ UNCHANGED <<env_vars, agent_vars, files, episodes, train_batch_size,
                   episode, agents, shaped_states, done, turn, total_rewards,
                   ticks, syncs, saves>>

\* "Environment step": next_states, rewards, done, _ = env.step(actions);
\* next_states and rewards are read from env_out afterwards
TrainEnvStep ==
    /\ pc = "step"
    /\ StepWith({joint_actions}, TrainIncrements, TrainDraws)
    /\ done' = env_out'.done
    /\ calls' = Append(calls, [op |-> "step",
                               actions |-> joint_actions,
                               next_states |-> env_out'.state,
                               rewards |-> env_out'.rewards,
                               done |-> env_out'.done])
    /\ ticks' = ticks + 1
    /\ turn' = 0
    /\ pc' = "remember"
    /\ UNCHANGED <<agent_vars, files, episodes, train_batch_size, episode,
                   agents, shaped_states, joint_actions, total_rewards,
                   syncs, saves>>

\* Variant of TransitionFor: every agent stores the first agent's state.
TransitionForFirstState(i) ==
    [state |-> shaped_states[0],
     action |-> joint_actions[i],
     reward |-> env_out.rewards[i],
     next_state |-> env_out.state[i],
     done |-> done]

\* The arguments of agent.remember(...) for agent i
TransitionFor(i) ==
    [state |-> shaped_states[i],
     action |-> joint_actions[i],
     reward |-> env_out.rewards[i],
     next_state |-> env_out.state[i],
     done |-> done]

\* "Agents remember experiences": agent.remember(...) of the agent at turn
TrainRemember ==
    /\ pc = "remember"
    /\ agents' = [agents EXCEPT ![turn] = remember(@, TransitionFor(turn))]
    /\ calls' = Append(calls, [op |-> "remember", agent |-> turn,
                               transition |-> TransitionFor(turn)])
    /\ pc' = "replay"
    /\ UNCHANGED <<env_vars, agent_vars, files, episodes, train_batch_size,
                   episode, shaped_states, joint_actions, done, turn,
                   total_rewards, ticks, syncs, saves>>

\* "Train from experience replay" and "Update total rewards" of the agent
\* at turn, and the step of the loop over agents.items()
TrainReplay ==
    /\ pc = "replay"
    /\ \E fitted \in TrainFitted(agents[turn].primary_network,
                                 train_batch_size) :
          agents' = [agents EXCEPT
                        ![turn] = replay(@, train_batch_size, fitted)]
    /\ total_rewards' =
          [total_rewards EXCEPT ![turn] = @ + env_out.rewards[turn]]
    /\ calls' = Append(calls, [op |-> "replay", agent |-> turn,
                               batch_size |-> train_batch_size])
    /\ IF turn < LastAgent
       THEN turn' = turn + 1 /\ pc' = "remember"
       ELSE turn' = 0 /\ pc' = "tick_end"
    /\ UNCHANGED <<env_vars, agent_vars, files, episodes, train_batch_size,
                   episode, shaped_states, joint_actions, done, ticks, syncs,
                   saves>>

\* Variant of SyncDue: the tick is not looked at.
SyncDueEveryTick(e, step) == e % 10 = 0

\* "if episode % 10 == 0 and env.current_step == 1"
SyncDue(e, step) == e % 10 = 0 /\ step = 1

\* Variant of TrainEndTick: "Update states" is missing, the agents keep
\* the states they had.
TrainEndTickKeepsStates ==
    /\ pc = "tick_end"
    /\ shaped_states' = shaped_states
    /\ IF SyncDue(episode, current_step)
       THEN /\ agents' = [i \in DOMAIN agents |->
                             update_target_network(agents[i])]
            /\ syncs' = [i \in DOMAIN agents |-> syncs[i] + 1]
            /\ calls' = calls \o
                          [k \in 1 .. Cardinality(DOMAIN agents) |->
                              [op |-> "update_target_network",
                               agent |-> k - 1]]
       ELSE UNCHANGED <<agents, syncs, calls>>
    /\ pc' = "while"
    /\ UNCHANGED <<env_vars, agent_vars, files, episodes, train_batch_size,
                   episode, joint_actions, done, turn, total_rewards, ticks,
                   saves>>

\* "Update states" and "Update target networks every 10 episodes", then
\* back to the test of "while not done"
TrainEndTick ==
    /\ pc = "tick_end"
    /\ shaped_states' = env_out.state
    /\ IF SyncDue(episode, current_step)
       THEN /\ agents' = [i \in DOMAIN agents |->
                             update_target_network(agents[i])]
            /\ syncs' = [i \in DOMAIN agents |-> syncs[i] + 1]
            /\ calls' = calls \o
                          [k \in 1 .. Cardinality(DOMAIN agents) |->
                              [op |-> "update_target_network",
                               agent |-> k - 1]]
       ELSE UNCHANGED <<agents, syncs, calls>>
    /\ pc' = "while"
    /\ UNCHANGED <<env_vars, agent_vars, files, episodes, train_batch_size,
                   episode, joint_actions, done, turn, total_rewards, ticks,
                   saves>>

\* "while not done" leaving the loop, "Print training progress" and the
\* next value of the loop variable; episode counts the episodes completed
TrainEndEpisode ==
    /\ pc = "while"
    /\ done
    /\ episode' = episode + 1
    /\ pc' = "for_episode"
    /\ UNCHANGED <<env_vars, agent_vars, files, episodes, train_batch_size,
                   agents, shaped_states, joint_actions, done, turn,
                   total_rewards, calls, ticks, syncs, saves>>

\* "for episode in range(episodes)" exhausted: on to "Save trained agents"
TrainEndTraining ==
    /\ pc = "for_episode"
    /\ episode >= episodes
    /\ pc' = "save"
    /\ turn' = 0
    /\ UNCHANGED <<env_vars, agent_vars, files, episodes, train_batch_size,
                   episode, agents, shaped_states, joint_actions, done,
                   total_rewards, calls, ticks, syncs, saves>>

\* agent.save(f"agent_{i}_model.h5") of the agent at turn; after the last
\* one, "return agents"
TrainSave ==
    /\ pc = "save"
    /\ files' = WriteModel(files, PathOf(turn), agents[turn].primary_network)
    /\ saves' = [saves EXCEPT ![turn] = @ + 1]
    /\ IF turn < LastAgent
       THEN turn' = turn + 1 /\ pc' = "save"
       ELSE turn' = turn /\ pc' = "return"
    /\ UNCHANGED <<env_vars, agent_vars, episodes, train_batch_size, episode,
                   agents, shaped_states, joint_actions, done, total_rewards,
                   calls, ticks, syncs>>

NextTrain ==
    \/ TrainBeginEpisode
    \/ TrainSelectActions
    \/ TrainEnvStep
    \/ TrainRemember
    \/ TrainReplay
    \/ TrainEndTick
    \/ TrainEndEpisode
    \/ TrainEndTraining
    \/ TrainSave

\* The batch sizes train_agent is called with
TrainBatchSizes == {1}

\* The weights the primary networks are built with: agent i starts as
\* network i modulo the number of networks
TrainWeights == {[i \in AgentIds |-> i % Cardinality(Weights)]}

(* SpecTrain: train_agent(MaxEpisodes, 1) *)
InitTrain == TrainInit({MaxEpisodes}, TrainBatchSizes, TrainWeights)

SpecTrain == InitTrain /\ [][NextTrain]_vars

(* SpecTrainFair: train_agent(episodes, batch_size) for a few episodes,    *)
(* every statement eventually executed: train_agent is one sequential      *)
(* thread that nothing suspends.                                           *)
InitTrainFair == TrainInit(0 .. FairEpisodes, TrainBatchSizes, TrainWeights)

SpecTrainFair == InitTrainFair /\ [][NextTrain]_vars /\ WF_vars(NextTrain)

----------------------------------------------------------------------------
(* Claims about train_agent *)

\* C15: in train_agent every agent's update_target_network() is called
\* exactly once in each episode whose index is a multiple of 10 (episode 0
\* included), at the end of the first tick of that episode
\* (env.current_step = 1), and in no other episode and at no other tick.
C15_SyncEveryTenthEpisode ==
    /\ [](pc = "while" /\ ticks >= 1 =>
             \A i \in DOMAIN agents :
                 syncs[i] = IF episode % 10 = 0 THEN 1 ELSE 0)
    /\ [][\A i \in DOMAIN agents :
             /\ i \in DOMAIN syncs /\ syncs'[i] > syncs[i] =>
                   /\ episode % 10 = 0
                   /\ ticks = 1
                   /\ current_step = 1
                   /\ syncs'[i] = 1
                   /\ agents'[i].target_network = agents[i].primary_network
             /\ agents'[i].target_network # agents[i].target_network =>
                   syncs'[i] = syncs[i] + 1]_vars

\* Episode 10 has finished its first tick with every target network
\* updated once, the last agent's target taking weights it did not have.
C15_Witness ==
    /\ pc = "while"
    /\ episode = 10
    /\ ticks = 1
    /\ \A i \in DOMAIN agents : syncs[i] = 1
    /\ Len(calls) > 0
    /\ calls[Len(calls)].op = "update_target_network"
    /\ agents[LastAgent].target_network = agents[LastAgent].primary_network

\* What the k-th call of a tick must be, with n agents: the acts of agents
\* 0 .. n-1, one step, then remember and replay of each agent in turn, then
\* possibly the updates of the target networks.
C19_Expected(k, n) ==
    IF k <= n THEN [op |-> "act", agent |-> k - 1]
    ELSE IF k = n + 1 THEN [op |-> "step", agent |-> -1]
    ELSE IF k <= 3 * n + 1
         THEN [op |-> IF (k - n) % 2 = 0 THEN "remember" ELSE "replay",
               agent |-> (k - n - 2) \div 2]
         ELSE [op |-> "update_target_network", agent |-> k - 3 * n - 2]

\* C19: the calls of a tick of train_agent come in this order: act() of
\* every agent, on the current observation of its own intersection; then
\* one env.step() with the map of all the actions returned; then, for each
\* agent in turn, one remember() with its own state, action, reward and
\* next state and the terminal flag step() returned, followed at once by
\* replay(batch_size).  The environment is stepped once per tick, after all
\* the actions are collected.
C19_TickOrder ==
    LET n == Cardinality(DOMAIN agents)
    IN  /\ pc \in {"step", "remember", "replay", "tick_end"} => Len(calls) >= n
        /\ pc \in {"remember", "replay", "tick_end"} => Len(calls) >= n + 1
        /\ pc = "tick_end" => Len(calls) = 3 * n + 1
        /\ pc = "step" => Len(calls) = n
        /\ pc = "remember" => Len(calls) = n + 1 + 2 * turn
        /\ pc = "replay" => Len(calls) = n + 2 + 2 * turn
        /\ Len(calls) <= n => current_step = ticks
        /\ Len(calls) > n => current_step = ticks /\ ticks >= 1
        /\ \A k \in 1 .. Len(calls) :
              LET c == calls[k]
                  e == C19_Expected(k, n)
              IN  /\ c.op = e.op
                  /\ c.op # "step" => c.agent = e.agent
                  /\ c.op = "act" => c.state = c.observed
                  /\ c.op = "step" =>
                        /\ DOMAIN c.actions = DOMAIN agents
                        /\ \A i \in DOMAIN agents :
                              c.actions[i] = calls[i + 1].result
                  /\ c.op = "remember" =>
                        c.transition =
                            [state |-> calls[c.agent + 1].state,
                             action |-> calls[c.agent + 1].result,
                             reward |-> calls[n + 1].rewards[c.agent],
                             next_state |-> calls[n + 1].next_states[c.agent],
                             done |-> calls[n + 1].done]
                  /\ c.op = "replay" => c.batch_size = train_batch_size

\* The terminal tick of an episode has run all its calls: four acts, the
\* step that returned done = True, and remember and replay of every agent,
\* agents 0 and 1 having acted on different observations and chosen
\* different actions.
C19_Witness ==
    /\ pc = "tick_end"
    /\ ticks = 1000
    /\ done
    /\ Len(calls) = 13
    /\ calls[13].op = "replay" /\ calls[13].agent = 3
    /\ calls[5].op = "step"
    /\ calls[8].transition.done = TRUE
    /\ calls[1].state # calls[2].state
    /\ calls[1].result # calls[2].result

----------------------------------------------------------------------------
(* SpecBuild: TrafficEnvironment(grid_size=(10, 10), num_intersections=n)  *)
(* for every n of 0 .. MaxRequested, then ticks that leave the             *)
(* intersections alone or switch them all; no vehicle arrives.             *)

\* TrafficEnvironment.__init__ for the requested counts N
BuildInit(N) ==
    /\ num_requested \in N
    /\ intersections = IntersectionsFor(num_requested)
    /\ current_time = 0
    /\ current_step = 0
    /\ env_out = [op |-> "init", actions |-> NoMap, state |-> NoMap,
                  rewards |-> NoMap, done |-> FALSE, info |-> NoMap]

BuildMaps == {NoMap, [i \in DOMAIN intersections |-> 1]}

BuildStep ==
    /\ current_step < JamBound
    /\ StepWith(BuildMaps, TrainIncrements, LongDraws)
    /\ UNCHANGED <<agent_vars, files, train_vars>>

NextBuild == BuildStep

InitBuild ==
    BuildInit(0 .. MaxRequested) /\ AgentInit({0}) /\ NoFiles /\ NotTraining

SpecBuild == InitBuild /\ [][NextBuild]_vars

\* C21: an environment constructed for num_intersections = n has exactly
\* floor(sqrt(n))^2 intersections, with the ids 0 .. floor(sqrt(n))^2 - 1:
\* n of them when n is a perfect square and fewer than n when it is not.
C21_SquareNumberOfIntersections ==
    \E k \in 0 .. num_requested :
        /\ k * k <= num_requested
        /\ num_requested < (k + 1) * (k + 1)
        /\ DOMAIN intersections = 0 .. (k * k - 1)
        /\ Cardinality(DOMAIN intersections) = k * k
        /\ k * k = num_requested =>
              Cardinality(DOMAIN intersections) = num_requested
        /\ k * k # num_requested =>
              Cardinality(DOMAIN intersections) < num_requested

\* An environment requested with 8 intersections has 4, with the ids
\* 0 .. 3, and has been stepped with an action for each.
C21_Witness ==
    /\ num_requested = 8
    /\ DOMAIN intersections = 0 .. 3
    /\ env_out.op = "step"
    /\ DOMAIN env_out.rewards = 0 .. 3

\* C25: within an episode of train_agent the transitions an agent stores
\* form a chain.  The state of the first one is the agent's observation
\* returned by reset(); the state of every later one is the next_state of
\* the transition the agent stored at the tick before; the terminal flag
\* is true on the transition stored at tick max_steps, the last of the
\* episode, and on no other, so on exactly one per agent and episode.
C25_TransitionChain ==
    /\ [](pc = "step" /\ ticks = 0 =>
             /\ env_out.op = "reset"
             /\ \A i \in DOMAIN agents : calls[i + 1].state = env_out.state[i])
    /\ [][\A i \in DOMAIN agents :
             (i \in DOMAIN agents' /\
              agents'[i].n_remember = agents[i].n_remember + 1) =>
                 LET stored == agents'[i].memory[Len(agents'[i].memory)]
                     earlier == agents[i].memory[Len(agents[i].memory)]
                 IN  /\ stored.serial = episode * max_steps + ticks
                     /\ stored.state = calls[i + 1].state
                     /\ stored.done = (ticks = max_steps)
                     /\ ticks >= 2 =>
                           /\ earlier.serial = stored.serial - 1
                           /\ earlier.done = FALSE
                           /\ stored.state = earlier.next_state
                     /\ (ticks = 1 /\ episode > 0) =>
                           /\ earlier.serial = stored.serial - 1
                           /\ earlier.done = TRUE]_vars
    /\ [][episode' = episode + 1 =>
             \A i \in DOMAIN agents :
                 /\ agents[i].n_remember = (episode + 1) * max_steps
                 /\ agents[i].memory[Len(agents[i].memory)].done = TRUE]_vars

\* The second episode has stored its terminal transition for the last
\* agent: the buffer holds the transitions of ticks 999 and 1000, the
\* second starting in the state the first ended in, and only the second
\* terminal.
C25_Witness ==
    /\ pc = "replay"
    /\ turn = LastAgent
    /\ episode = 1
    /\ ticks = 1000
    /\ Len(agents[turn].memory) = 2
    /\ agents[turn].memory[1].done = FALSE
    /\ agents[turn].memory[2].done = TRUE
    /\ agents[turn].memory[2].serial = 2000
    /\ agents[turn].memory[2].state = agents[turn].memory[1].next_state
    /\ agents[turn].memory[2].state # agents[turn].memory[1].state
    /\ agents[turn].memory[2].state # agents[1].memory[2].state

====
